---- MODULE Spec2Model ----
(***************************************************************************)
(* The rate-limited request-dispatch core of backend/main.py:              *)
(*   RateLimiter (acquire, wait_and_acquire) and BetfairClient             *)
(*   (_api_request, _account_request and the public calls built on them).  *)
(*                                                                         *)
(* Time is counted in ticks of the wall clock; one tick is the polling     *)
(* interval of wait_and_acquire.  Every task is one coroutine.  A step of  *)
(* the model is the code between two points where another coroutine may    *)
(* run (an await that suspends) or where the clock may advance.  The       *)
(* critical section of acquire is two steps, the decision and the append,  *)
(* so that it is the lock, not the size of a step, that makes it atomic.   *)
(***************************************************************************)
EXTENDS Integers, Sequences, FiniteSets, TLC

\* ------------------------------------------------------------------ bounds
\* The clock runs from 0 to MaxTime.
MaxTime == 2
\* At most MaxOps calls are started by the callers in one behaviour.
MaxOps == 2
\* RateLimiter(max_requests, window_seconds): the configurations explored
\* are max_requests in 0..MaxMaxRequests and window in 1..MaxWindow ticks.
MaxMaxRequests == 1
MaxWindow == 1
\* The timeout of wait_and_acquire (5.0 s by default), in ticks.
DefaultTimeout == 1

\* ---------------------------------------------------------------- constants
\* asyncio.sleep(0.1): one tick.
PollInterval == 1
\* place_orders: the minimum stake (1.0) and payout (10.0), in tenths.
MinStake == 10
MinPayout == 100

Tasks == {"t1", "t2"}
NoTask == "-"
\* Market identifiers used as rate-limit keys.
Keys == {"M1", "M2"}
\* Python's None for an absent rate_limit_key.
None == "None"
\* PlaceOrderRequest.market_id is any string, the empty one included.
MarketIds == Keys \cup {""}
\* MarketBookRequest.market_ids: one to forty market ids (min_length=1).
MarketIdLists ==
    {<<"M1">>, <<"">>, <<"M1", "M2">>, <<"M2", "M1">>}
\* PlaceOrderRequest: stake in tenths (gt 0), odds (gt 1.01, le 1000).
NoOrder == [stake |-> 0, odds |-> 0]
Orders ==
    {[stake |-> 5, odds |-> 5], [stake |-> 5, odds |-> 20],
     [stake |-> 5, odds |-> 25], [stake |-> 10, odds |-> 5]}
\* The calls that pass no rate_limit_key to _api_request.
UnlimitedOps == {"list_market_catalogue", "cancel_orders", "list_current_orders"}

\* What the upstream may answer: no response at all (httpx.RequestError), or
\* a response with a declared content type and a body.  A body is a JSON
\* object, with or without "error" (and its data.exceptionname) and
\* "result", or is not JSON at all.
NoResponse == [ctype |-> "-", json |-> FALSE, error |-> "-", result |-> FALSE]
RequestError ==
    [ctype |-> "RequestError", json |-> FALSE, error |-> "-", result |-> FALSE]
JsonBodies ==
    {[json |-> TRUE, error |-> "absent", result |-> TRUE],
     [json |-> TRUE, error |-> "absent", result |-> FALSE],
     [json |-> TRUE, error |-> "INVALID_SESSION_INFORMATION", result |-> FALSE],
     [json |-> TRUE, error |-> "OTHER", result |-> FALSE]}
Response(c, b) ==
    [ctype |-> c, json |-> b.json, error |-> b.error, result |-> b.result]
Responses ==
    {Response("application/json", b) : b \in JsonBodies}
    \cup {Response("text/html", [json |-> FALSE, error |-> "-", result |-> FALSE]),
          Response("text/html", [json |-> TRUE, error |-> "absent", result |-> TRUE])}

VARIABLES
    clock,          \* datetime.now(timezone.utc).timestamp(), in ticks
    max_requests,   \* RateLimiter.max_requests
    window,         \* RateLimiter.window
    requests,       \* RateLimiter.requests: key -> list of timestamps
    lock,           \* RateLimiter._lock: the task holding it, or NoTask
    task,           \* per task: position, locals, result
    ops,            \* the number of calls started so far
    called,         \* history: the call the last step started, if it did
    returned,       \* history: the call the last step ended, if it did
    log,            \* history: the acquire attempts of the last window
    lastGrant       \* history: per key, the time of its last grant, or -1

vars ==
    <<clock, max_requests, window, requests, lock, task, ops, called, returned,
      log, lastGrant>>

\* ---------------------------------------------------------------- results
NoOutcome == [type |-> "none", status |-> 0, detail |-> ""]
Returned(v) == [type |-> "return", status |-> 200, detail |-> v]
HTTPException(s, d) == [type |-> "HTTPException", status |-> s, detail |-> d]
\* An exception no handler of the client catches (the application's
\* general_exception_handler answers 500, lines 773-779).
Uncaught(e) == [type |-> "exception", status |-> 500, detail |-> e]
Str(b) == IF b THEN "True" ELSE "False"

\* ------------------------------------------------------------------ tasks
\* A task's record: pc is its position, op the call it was entered by, key
\* the rate-limit key, now/start/timeout the locals of acquire and
\* wait_and_acquire, sleep the ticks left of asyncio.sleep, ret the result,
\* resp the upstream's answer, at the time the call ends.  waits, grants and
\* posts count, for the call in progress, the wait_and_acquire calls made,
\* the slots granted and the network calls issued; held is the length of the
\* key's list as acquire found it.
IdleTask ==
    [pc |-> "idle", op |-> "none", key |-> None,
     now |-> 0, start |-> 0, timeout |-> 0, sleep |-> 0,
     ret |-> NoOutcome, resp |-> NoResponse, at |-> 0,
     waits |-> 0, grants |-> 0, posts |-> 0, held |-> 0]

\* The arguments of a call: the task, the method, and what it was given.
NoArgs ==
    [task |-> NoTask, op |-> "none", key |-> None, timeout |-> 0,
     order |-> NoOrder, ids |-> <<>>]
Args(t, o) == [NoArgs EXCEPT !.task = t, !.op = o]

\* The call in progress ends with result r.
Done(tr, r) == [tr EXCEPT !.pc = "done", !.ret = r, !.at = clock]

\* Task t goes on as tr; when its call has ended, the result is handed to
\* the caller and the task is free again.
Step(t, tr) ==
    /\ task' = [task EXCEPT ![t] = IF tr.pc = "done" THEN IdleTask ELSE tr]
    /\ returned' = IF tr.pc = "done" THEN tr ELSE IdleTask

\* A step of a call in progress.
Proceed(t, tr) ==
    /\ Step(t, tr)
    /\ called' = NoArgs
    /\ UNCHANGED ops

\* A caller starts a call with arguments a on the free task t.
Call(t, a, tr) ==
    /\ task[t].pc = "idle"
    /\ ops < MaxOps
    /\ ops' = ops + 1
    /\ called' = a
    /\ Step(t, tr)

\* ------------------------------------------------------------ RateLimiter
\* lines 109-110: the key's list is created on first use.
WithKey(reqs, k) ==
    IF k \in DOMAIN reqs THEN reqs
    ELSE [x \in DOMAIN reqs \cup {k} |-> IF x = k THEN <<>> ELSE reqs[x]]

\* Mutant: a timestamp of age exactly window is still counted.
LiveInclusive(n, ts, w) == n - ts <= w

\* line 115: a timestamp is kept while now - ts < window.
Live(n, ts, w) == n - ts < w

\* Mutant: nothing is ever dropped.
PrunedNothing(reqs, k, n, w) == reqs

\* Mutant: every key's list is pruned, not only the caller's.
PrunedEveryKey(reqs, k, n, w) ==
    [x \in DOMAIN reqs |-> SelectSeq(reqs[x], LAMBDA ts : n - ts < w)]

\* Mutant: the key's list is rebuilt empty.
PrunedAll(reqs, k, n, w) == [reqs EXCEPT ![k] = <<>>]

\* lines 113-116: the key's list without its expired timestamps.
Pruned(reqs, k, n, w) ==
    [reqs EXCEPT ![k] = SelectSeq(@, LAMBDA ts : Live(n, ts, w))]

\* Mutant: the window counts as full one request early.
SaturatedEarly(reqs, k, m) == Len(reqs[k]) + 1 >= m

\* Mutant: an empty window is never full.
SaturatedUnlessEmpty(reqs, k, m) == Len(reqs[k]) > 0 /\ Len(reqs[k]) >= m

\* Mutant: a slot is a lease; a key with a request in flight is full.
SaturatedWhileInFlight(reqs, k, m) ==
    \/ Len(reqs[k]) >= m
    \/ \E u \in Tasks : task[u].pc = "await" /\ task[u].key = k

\* Mutant: one request too many is let through.
SaturatedOffByOne(reqs, k, m) == Len(reqs[k]) > m

\* line 118: the window is full.
Saturated(reqs, k, m) == Len(reqs[k]) >= m

\* Mutant: acquire without the lock.
LockIgnored == TRUE

\* async with self._lock: the lock can be taken.
LockFree == lock = NoTask

\* Mutant: the loop of wait_and_acquire has no deadline.
WithinDeadlineAlways(n, s, to) == TRUE

\* Mutant: the deadline is taken from the epoch, not from the start.
WithinDeadlineNoStart(n, s, to) == n < to

\* line 127: the loop condition of wait_and_acquire.
WithinDeadline(n, s, to) == n - s < to

\* line 369: if rate_limit_key.
Truthy(k) == k # None /\ k # ""

\* The history of attempts: the new entry, after those less than a window
\* older than it.
Logged(lg, e) ==
    Append(SelectSeq(lg, LAMBDA x : e.time - x.time < window), e)

\* An attempt on key k at time n, granted or not; prev is the time of the
\* key's last grant before it and held the length of the key's list as the
\* attempt found it.
Entry(k, n, g, h) ==
    [key |-> k, time |-> n, granted |-> g, prev |-> lastGrant[k], held |-> h]

Held(k) == IF k \in DOMAIN requests THEN Len(requests[k]) ELSE 0

\* lines 385-390 and 434-439: the request is sent.
Post(tr) == [tr EXCEPT !.pc = "await", !.posts = @ + 1]

\* Mutant: a denied dispatch waits for a slot once more.
WaitReturnRetries(tr, b) ==
    IF tr.op = "wait_and_acquire" THEN Done(tr, Returned(Str(b)))
    ELSE IF b THEN Post(tr)
    ELSE IF tr.waits < 2
    THEN [tr EXCEPT !.pc = "wa_loop", !.start = clock, !.waits = @ + 1]
    ELSE Done(tr, HTTPException(429, "Rate limit exceeded"))

\* wait_and_acquire returns b to its caller: the direct caller, or line 370
\* of _api_request (429 on False, else the request is sent).
WaitReturn(tr, b) ==
    IF tr.op = "wait_and_acquire" THEN Done(tr, Returned(Str(b)))
    ELSE IF b THEN Post(tr)
    ELSE Done(tr, HTTPException(429, "Rate limit exceeded"))

\* acquire returns b to its caller: the direct caller, or line 128 of
\* wait_and_acquire (return True, or sleep for the polling interval).
AcquireReturn(tr, b) ==
    IF tr.op = "acquire" THEN Done(tr, Returned(Str(b)))
    ELSE IF b THEN WaitReturn(tr, TRUE)
    ELSE [tr EXCEPT !.pc = "wa_sleep", !.sleep = PollInterval]

\* line 126: wait_and_acquire(k, to) is entered.
WaitEnter(tr, k, to) ==
    [tr EXCEPT !.pc = "wa_loop", !.key = k, !.start = clock, !.timeout = to,
               !.waits = @ + 1]

\* A caller starts acquire(k).
CallAcquire(t, k) ==
    /\ Call(t, [Args(t, "acquire") EXCEPT !.key = k],
            [IdleTask EXCEPT !.pc = "acq_enter", !.op = "acquire", !.key = k])
    /\ UNCHANGED <<clock, max_requests, window, requests, lock, log, lastGrant>>

\* A caller starts wait_and_acquire(k, to).
CallWaitAndAcquire(t, k, to) ==
    /\ Call(t, [Args(t, "wait_and_acquire") EXCEPT !.key = k, !.timeout = to],
            WaitEnter([IdleTask EXCEPT !.op = "wait_and_acquire"], k, to))
    /\ UNCHANGED <<clock, max_requests, window, requests, lock, log, lastGrant>>

\* line 127: the deadline check; then acquire is called, or False returned.
WaLoop(t) ==
    /\ task[t].pc = "wa_loop"
    /\ Proceed(t, IF WithinDeadline(clock, task[t].start, task[t].timeout)
                  THEN [task[t] EXCEPT !.pc = "acq_enter"]
                  ELSE WaitReturn(task[t], FALSE))
    /\ UNCHANGED <<clock, max_requests, window, requests, lock, log, lastGrant>>

\* Mutant: the waiters of a key are served in turn; one whose sleep is over
\* polls only when no task has waited longer on its key.
WaWakeInTurn(t) ==
    /\ task[t].pc = "wa_sleep"
    /\ task[t].sleep = 0
    /\ ~\E u \in Tasks : /\ u # t /\ task[u].op = "wait_and_acquire"
                         /\ task[u].key = task[t].key
                         /\ task[u].start < task[t].start
    /\ Proceed(t, [task[t] EXCEPT !.pc = "wa_loop"])
    /\ UNCHANGED <<clock, max_requests, window, requests, lock, log, lastGrant>>

\* line 130: the sleep is over.
WaWake(t) ==
    /\ task[t].pc = "wa_sleep"
    /\ task[t].sleep = 0
    /\ Proceed(t, [task[t] EXCEPT !.pc = "wa_loop"])
    /\ UNCHANGED <<clock, max_requests, window, requests, lock, log, lastGrant>>

\* Mutant: a denied attempt returns without releasing the lock, so that a
\* waiter sleeps with the lock held.
AcquireEnterHoldsLock(t) ==
    /\ task[t].pc = "acq_enter"
    /\ LockFree
    /\ LET k == task[t].key
           reqs == Pruned(WithKey(requests, k), k, clock, window)
       IN  /\ requests' = reqs
           /\ lock' = t
           /\ IF Saturated(reqs, k, max_requests)
              THEN /\ Proceed(t, AcquireReturn(task[t], FALSE))
                   /\ log' = Logged(log, Entry(k, clock, FALSE, Held(k)))
              ELSE /\ Proceed(t, [task[t] EXCEPT !.pc = "acq_append",
                                                 !.now = clock,
                                                 !.held = Held(k)])
                   /\ UNCHANGED log
    /\ UNCHANGED <<clock, max_requests, window, lastGrant>>

\* lines 106-119: the lock is taken, the clock read, the key's list created
\* and pruned; a full window denies and the lock is released.
AcquireEnter(t) ==
    /\ task[t].pc = "acq_enter"
    /\ LockFree
    /\ LET k == task[t].key
           reqs == Pruned(WithKey(requests, k), k, clock, window)
       IN  /\ requests' = reqs
           /\ IF Saturated(reqs, k, max_requests)
              THEN /\ Proceed(t, AcquireReturn(task[t], FALSE))
                   /\ log' = Logged(log, Entry(k, clock, FALSE, Held(k)))
                   /\ UNCHANGED lock
              ELSE /\ Proceed(t, [task[t] EXCEPT !.pc = "acq_append",
                                                 !.now = clock,
                                                 !.held = Held(k)])
                   /\ lock' = t
                   /\ UNCHANGED log
    /\ UNCHANGED <<clock, max_requests, window, lastGrant>>

\* Mutant: the timestamp appended is the one read when the caller began to
\* wait, before the lock was taken.
AcquireAppendStale(t) ==
    /\ task[t].pc = "acq_append"
    /\ LET k == task[t].key
           n == task[t].start
       IN  /\ requests' = [requests EXCEPT ![k] = Append(@, n)]
           /\ log' = Logged(log, Entry(k, task[t].now, TRUE, task[t].held))
           /\ lastGrant' = [lastGrant EXCEPT ![k] = task[t].now]
    /\ Proceed(t, AcquireReturn([task[t] EXCEPT !.now = 0, !.held = 0,
                                                !.grants = @ + 1], TRUE))
    /\ lock' = IF lock = t THEN NoTask ELSE lock
    /\ UNCHANGED <<clock, max_requests, window>>

\* lines 121-122: the timestamp is appended, and the lock is released.
AcquireAppend(t) ==
    /\ task[t].pc = "acq_append"
    /\ LET k == task[t].key
           n == task[t].now
       IN  /\ requests' = [requests EXCEPT ![k] = Append(@, n)]
           /\ log' = Logged(log, Entry(k, n, TRUE, task[t].held))
           /\ lastGrant' = [lastGrant EXCEPT ![k] = n]
    /\ Proceed(t, AcquireReturn([task[t] EXCEPT !.now = 0, !.held = 0,
                                                !.grants = @ + 1], TRUE))
    /\ lock' = IF lock = t THEN NoTask ELSE lock
    /\ UNCHANGED <<clock, max_requests, window>>

\* The wall clock advances; the sleeping tasks' timers run down.
Tick ==
    /\ clock < MaxTime
    /\ clock' = clock + 1
    /\ task' = [t \in Tasks |->
                  IF task[t].pc = "wa_sleep" /\ task[t].sleep > 0
                  THEN [task[t] EXCEPT !.sleep = @ - 1] ELSE task[t]]
    /\ called' = NoArgs
    /\ returned' = IdleTask
    /\ UNCHANGED <<max_requests, window, requests, lock, ops, log, lastGrant>>

\* __init__ (lines 98-102), with no call made yet.
Start ==
    /\ clock = 0
    /\ requests = [k \in {} |-> <<>>]
    /\ lock = NoTask
    /\ task = [t \in Tasks |-> IdleTask]
    /\ ops = 0
    /\ called = NoArgs
    /\ returned = IdleTask
    /\ log = <<>>
    /\ lastGrant = [k \in MarketIds |-> -1]

\* A rate limiter of any configuration within the bounds.
Init ==
    /\ Start
    /\ max_requests \in 0..MaxMaxRequests
    /\ window \in 1..MaxWindow

\* line 133: the rate limiter of the client, RateLimiter(RATE_LIMIT_REQUESTS,
\* RATE_LIMIT_WINDOW), scaled to the largest configuration within the bounds.
ClientInit ==
    /\ Start
    /\ max_requests = MaxMaxRequests
    /\ window = MaxWindow

\* The steps of the rate limiter.
LimiterStep ==
    \/ Tick
    \/ \E t \in Tasks : WaLoop(t)
    \/ \E t \in Tasks : WaWake(t)
    \/ \E t \in Tasks : AcquireEnter(t)
    \/ \E t \in Tasks : AcquireAppend(t)

\* The rate limiter under direct callers of acquire and wait_and_acquire.
LimiterNext ==
    \/ LimiterStep
    \/ \E t \in Tasks, k \in Keys : CallAcquire(t, k)
    \/ \E t \in Tasks, k \in Keys, to \in 0..DefaultTimeout :
          CallWaitAndAcquire(t, k, to)

LimiterSpec == Init /\ [][LimiterNext]_vars

\* The wall clock keeps advancing: past MaxTime it goes on for as long as a
\* task sleeps, one tick more for every task at most.
LiveTick ==
    /\ \/ clock < MaxTime
       \/ /\ clock < MaxTime + Cardinality(Tasks)
          /\ \E t \in Tasks : task[t].pc = "wa_sleep" /\ task[t].sleep > 0
    /\ clock' = clock + 1
    /\ task' = [t \in Tasks |->
                  IF task[t].pc = "wa_sleep" /\ task[t].sleep > 0
                  THEN [task[t] EXCEPT !.sleep = @ - 1] ELSE task[t]]
    /\ called' = NoArgs
    /\ returned' = IdleTask
    /\ UNCHANGED <<max_requests, window, requests, lock, ops, log, lastGrant>>

\* A caller starts wait_and_acquire(k, to) with its deadline within MaxTime.
CallWaitInTime(t, k, to) ==
    /\ clock + to <= MaxTime
    /\ CallWaitAndAcquire(t, k, to)

\* The rate limiter under callers of wait_and_acquire that all contend for
\* one key.
LiveNext ==
    \/ LiveTick
    \/ \E t \in Tasks : WaLoop(t)
    \/ \E t \in Tasks : WaWake(t)
    \/ \E t \in Tasks : AcquireEnter(t)
    \/ \E t \in Tasks : AcquireAppend(t)
    \/ \E t \in Tasks, to \in 0..DefaultTimeout : CallWaitInTime(t, "M1", to)

\* The clock advances; the event loop runs every coroutine that can run;
\* asyncio.Lock wakes its waiters in turn, so that a task that finds the
\* lock free again and again takes it.
Fairness ==
    /\ WF_vars(LiveTick)
    /\ \A t \in Tasks :
          /\ WF_vars(WaLoop(t))
          /\ WF_vars(WaWake(t))
          /\ SF_vars(AcquireEnter(t))
          /\ WF_vars(AcquireAppend(t))

LiveSpec == Init /\ [][LiveNext]_vars /\ Fairness

\* A rate limiter whose window is longer than the polling interval (the
\* client's is ten times as long), after max_requests calls of acquire("M1")
\* were granted at time 0: the key M1 is saturated.
WaitersInit ==
    /\ clock = 0
    /\ lock = NoTask
    /\ task = [t \in Tasks |-> IdleTask]
    /\ ops = 0
    /\ called = NoArgs
    /\ returned = IdleTask
    /\ max_requests \in 1..MaxMaxRequests
    /\ window = PollInterval + MaxWindow
    /\ requests = [k \in {"M1"} |-> [i \in 1..max_requests |-> 0]]
    /\ lastGrant = [k \in MarketIds |-> IF k = "M1" THEN 0 ELSE -1]
    /\ log = [i \in 1..max_requests |->
                [key |-> "M1", time |-> 0, granted |-> TRUE,
                 prev |-> IF i = 1 THEN -1 ELSE 0, held |-> i - 1]]

\* The rate limiter under callers of wait_and_acquire whose timeout, like
\* the default one, outlasts the window.
WaitersNext ==
    \/ LimiterStep
    \/ \E t \in Tasks, k \in Keys :
          CallWaitAndAcquire(t, k, window + PollInterval)

WaitersSpec == WaitersInit /\ [][WaitersNext]_vars

\* ---------------------------------------------------------- BetfairClient
\* Mutant: either shortfall rejects.
BelowMinimumEither(o) == o.stake < MinStake \/ o.stake * o.odds < MinPayout

\* lines 540-541: the bet sizing rule of place_orders.
BelowMinimum(o) == o.stake < MinStake /\ o.stake * o.odds < MinPayout

\* lines 542-545.
PolicyRejected ==
    HTTPException(400, "Stakes below 1 require potential payout of 10 or greater")

\* line 522: the rate-limit key of list_market_book.
\* Mutant: the rate-limit key is the last market id.
RateKeyLast(ids) == IF Len(ids) > 0 THEN ids[Len(ids)] ELSE "default"

RateKey(ids) == IF Len(ids) > 0 THEN ids[1] ELSE "default"

\* lines 368-390: _api_request limits the rate when given a key, and sends.
ApiRequest(tr, k) ==
    IF Truthy(k) THEN WaitEnter(tr, k, DefaultTimeout)
    ELSE Post([tr EXCEPT !.key = k])

\* lines 392-411: _api_request reads the response.
ApiResult(r) ==
    IF ~r.json THEN Uncaught("JSONDecodeError")
    ELSE IF r.error # "absent"
    THEN IF r.error = "INVALID_SESSION_INFORMATION"
         THEN HTTPException(401, "Session expired")
         ELSE HTTPException(400, "error.message")
    ELSE Returned(IF r.result THEN "result" ELSE "{}")

\* lines 441-451: _account_request reads the response.
AccountResult(r) ==
    IF ~r.json THEN Uncaught("JSONDecodeError")
    ELSE IF r.error # "absent" THEN HTTPException(400, "error.message")
    ELSE Returned(IF r.result THEN "result" ELSE "{}")

\* Mutant: a failed request is taken for an empty answer.
UnavailableAsEmpty == Returned("{}")

\* lines 413-418 and 453-458: no response.
Unavailable == HTTPException(503, "str(e)")

\* place_orders(session_token, request), lines 531-568.
CallPlaceOrders(t, m, o) ==
    /\ Call(t, [Args(t, "place_orders") EXCEPT !.key = m, !.order = o],
            LET tr == [IdleTask EXCEPT !.op = "place_orders"]
            IN  IF BelowMinimum(o) THEN Done(tr, PolicyRejected)
                ELSE ApiRequest(tr, m))
    /\ UNCHANGED <<clock, max_requests, window, requests, lock, log, lastGrant>>

\* list_market_book(session_token, request), lines 504-529.
CallListMarketBook(t, ids) ==
    /\ Call(t, [Args(t, "list_market_book") EXCEPT !.ids = ids],
            ApiRequest([IdleTask EXCEPT !.op = "list_market_book"],
                       RateKey(ids)))
    /\ UNCHANGED <<clock, max_requests, window, requests, lock, log, lastGrant>>

\* list_market_catalogue, cancel_orders, list_current_orders (lines 468-502
\* and 570-593): _api_request without a rate_limit_key.
CallUnlimited(t, o) ==
    /\ Call(t, Args(t, o), ApiRequest([IdleTask EXCEPT !.op = o], None))
    /\ UNCHANGED <<clock, max_requests, window, requests, lock, log, lastGrant>>

\* get_account_funds (lines 460-466): _account_request, lines 420-439.
CallGetAccountFunds(t) ==
    /\ Call(t, Args(t, "get_account_funds"),
            Post([IdleTask EXCEPT !.op = "get_account_funds"]))
    /\ UNCHANGED <<clock, max_requests, window, requests, lock, log, lastGrant>>

\* Mutant: a request that did not succeed gives its slot back.
ApiResponseRefunds(t, r) ==
    /\ task[t].pc = "await"
    /\ task[t].op # "get_account_funds"
    /\ LET out == IF r = RequestError THEN Unavailable ELSE ApiResult(r)
           k == task[t].key
       IN  /\ Proceed(t, Done([task[t] EXCEPT !.resp = r], out))
           /\ requests' =
                 IF /\ out.type # "return" /\ k \in DOMAIN requests
                    /\ Len(requests[k]) > 0
                 THEN [requests EXCEPT ![k] = SubSeq(@, 1, Len(@) - 1)]
                 ELSE requests
    /\ UNCHANGED <<clock, max_requests, window, lock, log, lastGrant>>

\* lines 386-418: the upstream answers a request of _api_request with r.
ApiResponse(t, r) ==
    /\ task[t].pc = "await"
    /\ task[t].op # "get_account_funds"
    /\ Proceed(t, Done([task[t] EXCEPT !.resp = r],
                       IF r = RequestError THEN Unavailable ELSE ApiResult(r)))
    /\ UNCHANGED <<clock, max_requests, window, requests, lock, log, lastGrant>>

\* lines 435-458: the upstream answers a request of _account_request with r.
AccountResponse(t, r) ==
    /\ task[t].pc = "await"
    /\ task[t].op = "get_account_funds"
    /\ Proceed(t, Done([task[t] EXCEPT !.resp = r],
                       IF r = RequestError THEN Unavailable
                       ELSE AccountResult(r)))
    /\ UNCHANGED <<clock, max_requests, window, requests, lock, log, lastGrant>>

\* The client under callers of its public methods.
Next ==
    \/ LimiterStep
    \/ \E t \in Tasks, m \in MarketIds, o \in Orders : CallPlaceOrders(t, m, o)
    \/ \E t \in Tasks, ids \in MarketIdLists : CallListMarketBook(t, ids)
    \/ \E t \in Tasks, o \in UnlimitedOps : CallUnlimited(t, o)
    \/ \E t \in Tasks : CallGetAccountFunds(t)
    \/ \E t \in Tasks, r \in Responses \cup {RequestError} : ApiResponse(t, r)
    \/ \E t \in Tasks, r \in Responses \cup {RequestError} : AccountResponse(t, r)

Spec == ClientInit /\ [][Next]_vars

\* ------------------------------------------------------------------ claims
\* The attempt decided last, and the attempts on its key that lie less than
\* a window before it.
Newest == log[Len(log)]
PriorCalls ==
    {i \in 1..(Len(log) - 1) :
        log[i].key = Newest.key /\ Newest.time - log[i].time < window}
PriorGrants == {i \in PriorCalls : log[i].granted}

\* The grants of key k with a timestamp in [a, a + window).
GrantsIn(k, a) ==
    {i \in 1..Len(log) :
        /\ log[i].key = k /\ log[i].granted
        /\ a <= log[i].time /\ log[i].time < a + window}
GrantBound ==
    \A k \in Keys, a \in 0..MaxTime : Cardinality(GrantsIn(k, a)) <= max_requests

\* C1: an acquire(key) that fewer than max_requests calls for the key
\* precede within a window is granted; one that max_requests grants for the
\* key precede within a window is denied; so no interval [a, a + window)
\* holds more than max_requests grants of one key.
C1_SlidingWindow ==
    /\ log # <<>> =>
          /\ Cardinality(PriorCalls) < max_requests => Newest.granted
          /\ Cardinality(PriorGrants) >= max_requests => ~Newest.granted
    /\ GrantBound

\* max_requests calls were granted and the next one, in the same window, is
\* denied.
C1_Witness ==
    /\ max_requests >= 1
    /\ log # <<>>
    /\ ~Newest.granted
    /\ Cardinality(PriorCalls) = max_requests
    /\ Cardinality(PriorGrants) = max_requests

\* C2: the critical section of acquire is atomic.  A task between the
\* decision and the append holds the lock; while it does, no other task
\* changes the limiter's state; and the concurrent callers never obtain more
\* than max_requests grants of one key with timestamps within one window.
InCritical(t) == task[t].pc = "acq_append"
C2_Atomic ==
    /\ [](\A t \in Tasks : InCritical(t) => lock = t)
    /\ []GrantBound
    /\ [][\A t \in Tasks :
            InCritical(t) /\ (requests' # requests \/ log' # log)
               => ~InCritical(t)']_vars

\* One task is inside the critical section while another is about to enter
\* it for the same key.
C2_Witness ==
    \E t, u \in Tasks :
        /\ t # u
        /\ InCritical(t) /\ lock = t
        /\ task[u].pc = "acq_enter" /\ task[u].key = task[t].key

\* C3: an acquire(key) made when a window or more has passed since the
\* key's last grant is granted.
C3_PruningGrants ==
    log # <<>> /\ Newest.prev >= 0 /\ Newest.time - Newest.prev >= window
       => Newest.granted

\* The key's list was full of expired timestamps, and the call is granted.
C3_Witness ==
    /\ log # <<>>
    /\ max_requests >= 1
    /\ Newest.held = max_requests
    /\ Newest.prev >= 0 /\ Newest.time - Newest.prev >= window
    /\ Newest.granted

\* C4: wait_and_acquire returns True exactly when one of its attempts was
\* granted, and False exactly when none was and the deadline has passed; no
\* waiter goes on polling after a grant.
C4_WaitResult ==
    /\ returned.op = "wait_and_acquire" =>
          /\ returned.ret \in {Returned("True"), Returned("False")}
          /\ returned.ret = Returned("True") <=> returned.grants = 1
          /\ returned.ret = Returned("False") <=>
                /\ returned.grants = 0
                /\ returned.at - returned.start >= returned.timeout
    /\ \A t \in Tasks : task[t].op = "wait_and_acquire" => task[t].grants = 0

\* A waiter with a deadline ahead of it was denied until the deadline passed.
C4_Witness ==
    /\ returned.op = "wait_and_acquire"
    /\ returned.timeout > 0
    /\ returned.ret = Returned("False")
    /\ log # <<>> /\ ~Newest.granted /\ Newest.key = returned.key

\* C5: a step changes the window of key k only if it is a step of acquire
\* on k; and whether an acquire on k is granted is decided by the live
\* timestamps of k alone.
Window(reqs, k) == IF k \in DOMAIN reqs THEN <<TRUE, reqs[k]>> ELSE <<FALSE, <<>>>>
LiveCount(k) ==
    IF k \in DOMAIN requests
    THEN Cardinality({i \in 1..Len(requests[k]) : clock - requests[k][i] < window})
    ELSE 0
C5_KeyIndependence ==
    [][/\ \A k \in Keys :
            Window(requests', k) # Window(requests, k) =>
               \E t \in Tasks :
                  /\ task[t].key = k
                  /\ task[t].pc \in {"acq_enter", "acq_append"}
                  /\ task'[t] # task[t]
       /\ \A t \in Tasks :
            task[t].pc = "acq_enter" /\ task'[t] # task[t] =>
               (LiveCount(task[t].key) < max_requests
                  <=> task'[t].pc = "acq_append")]_vars

\* One key's window is full and still live when the other key is granted.
C5_Witness ==
    /\ max_requests >= 1
    /\ log # <<>> /\ Newest.key = "M2" /\ Newest.granted
    /\ "M1" \in DOMAIN requests
    /\ Len(requests["M1"]) = max_requests
    /\ \A i \in 1..Len(requests["M1"]) : Newest.time - requests["M1"][i] < window

\* The outcomes of a dispatch.
RateLimited == HTTPException(429, "Rate limit exceeded")
SessionExpired == HTTPException(401, "Session expired")
TransportError(r) == r.type = "HTTPException" /\ r.status \in {502, 503}
Success(r) == r.type = "return"
ClientOps ==
    UnlimitedOps \cup {"place_orders", "list_market_book", "get_account_funds"}

\* C6: a dispatch given a rate-limit key (any string, where no key is None)
\* sends its request only after a slot was granted to it under that key; one
\* whose wait for a slot failed ends in 429 and has sent nothing.
Keyed(tr) == tr.op \in ClientOps /\ tr.key # None
C6_NoCallWithoutAdmission ==
    /\ \A t \in Tasks :
          Keyed(task[t]) /\ task[t].pc = "await" => task[t].grants >= 1
    /\ Keyed(returned) /\ returned.posts > 0 => returned.grants >= 1
    /\ returned.ret = RateLimited => returned.posts = 0 /\ returned.grants = 0
    /\ Keyed(returned) /\ returned.grants = 0 => returned.ret = RateLimited

\* C7: a dispatch waits for a slot at most once, is granted at most one slot
\* and sends at most one request, whatever its outcome; once it has returned
\* its task does nothing more.
Counted(tr) ==
    /\ tr.waits <= 1
    /\ tr.grants <= tr.waits
    /\ tr.posts <= 1
    /\ Truthy(tr.key) => tr.waits = 1
C8_Rejected(o) == o.stake < 10 /\ o.stake * o.odds < 100
C8_OrderPolicy ==
    /\ []( called.op = "place_orders" =>
             IF C8_Rejected(called.order)
             THEN /\ returned.op = "place_orders"
                  /\ returned.ret = PolicyRejected
                  /\ returned.waits = 0 /\ returned.grants = 0
                  /\ returned.posts = 0
                  /\ task[called.task] = IdleTask
             ELSE /\ returned = IdleTask
                  /\ task[called.task].op = "place_orders"
                  /\ task[called.task].pc \in {"wa_loop", "await"} )
    /\ [](returned.ret = PolicyRejected => called.op = "place_orders")
    /\ [][called'.op = "place_orders" /\ C8_Rejected(called'.order)
            => UNCHANGED <<requests, lock, log, lastGrant>>]_vars

\* The order of stake 0.5 at odds 5 is rejected.
C8_Witness ==
    /\ called.op = "place_orders"
    /\ called.order = [stake |-> 5, odds |-> 5]
    /\ returned.ret = PolicyRejected

\* C9: a response whose error carries INVALID_SESSION_INFORMATION ends the
\* dispatch in 401 "Session expired", on the trading and the account surface.
C9_SessionExpired ==
    returned.op \in ClientOps /\ returned.resp.json
       /\ returned.resp.error = "INVALID_SESSION_INFORMATION"
       => returned.ret = SessionExpired

\* C10: a response declaring a content type other than JSON ends the
\* dispatch in a transport error.
C10_NonJsonIsTransportError ==
    returned.op \in ClientOps /\ returned.resp.ctype = "text/html"
       => TransportError(returned.ret)

\* C11: a dispatch whose request got no response ends in a transport error,
\* never in success; success is returned only for a structured response
\* without an "error" member, and is the response's result, or the empty
\* object when the response has none.
C11_NoResponseIsTransportError ==
    /\ returned.resp = RequestError =>
          TransportError(returned.ret) /\ ~Success(returned.ret)
    /\ returned.op \in ClientOps /\ Success(returned.ret) =>
          /\ returned.posts = 1
          /\ returned.resp.json
          /\ returned.resp.error = "absent"
          /\ returned.ret = Returned(IF returned.resp.result
                                     THEN "result" ELSE "{}")
    /\ returned.op \in ClientOps /\ returned.resp.ctype = "application/json"
          /\ returned.resp.error = "absent" => Success(returned.ret)

\* A request that got no response has ended in 503.
C11_Witness ==
    /\ returned.op \in ClientOps
    /\ returned.posts = 1
    /\ returned.resp = RequestError
    /\ returned.ret = HTTPException(503, "str(e)")

\* C12: the lock is held only for the length of one acquire attempt, never
\* by a task that waits between two polls; while a waiter sleeps, any other
\* task that has called acquire can enter the critical section, unless a
\* third task is inside it.
Sleeping(t) == task[t].pc = "wa_sleep"
C12_NoLockWhileSleeping ==
    /\ \A t \in Tasks : lock = t => InCritical(t)
    /\ \A t \in Tasks : task[t].pc \in {"wa_sleep", "wa_loop"} => lock # t
    /\ \A t, u \in Tasks :
          /\ Sleeping(t) /\ task[u].pc = "acq_enter"
          /\ ~\E v \in Tasks : InCritical(v)
          => ENABLED AcquireEnter(u)

\* While one task sleeps between two polls, the acquire of another, on the
\* same key, has gone through the critical section and returned.
C12_Witness ==
    \E t \in Tasks :
       /\ Sleeping(t) /\ task[t].sleep > 0
       /\ returned.op = "acquire"
       /\ returned.key = task[t].key
       /\ lock = NoTask

\* C13 as stated: in every state every stored timestamp of every key is
\* less than a window old by the current clock.
StoredLive(reqs, k, n) ==
    \A i \in 1..Len(reqs[k]) : n - reqs[k][i] < window
C13_AlwaysLive ==
    \A k \in DOMAIN requests : StoredLive(requests, k, clock)

\* C13, amended: the timestamps of a key are less than a window old by the
\* clock that acquire read, each time acquire has pruned the key's list,
\* that is at every decision on the key, and still so when the granted
\* timestamp has been appended; between two acquires on the key they are
\* left to age.
C13_LiveAtDecision ==
    [][\A t \in Tasks :
          /\ task[t].pc = "acq_enter" /\ task'[t] # task[t]
             => StoredLive(requests', task[t].key, clock)
          /\ task[t].pc = "acq_append" /\ task'[t] # task[t]
             => StoredLive(requests', task[t].key, task[t].now)]_vars

\* An acquire found an expired timestamp in its key's list and dropped it.
C13_Witness ==
    \E t \in Tasks :
       /\ InCritical(t)
       /\ task[t].held > Len(requests[task[t].key])
       /\ StoredLive(requests, task[t].key, clock)

\* C14 as stated: under every configuration, an acquire on a key that was
\* never granted a slot is granted.
FirstOnKey == log # <<>> /\ Newest.prev < 0
C14_FirstAcquireGranted == FirstOnKey => Newest.granted

\* C14, amended: under every configuration with max_requests >= 1, an
\* acquire on a key that was never granted a slot is granted, and no waiter
\* ever sleeps on such a key.
C14_FirstAcquireGrantedIfAny ==
    max_requests >= 1 =>
       /\ FirstOnKey => Newest.granted
       /\ \A t \in Tasks : Sleeping(t) => lastGrant[task[t].key] >= 0

\* The first acquire on a key found no list, or an empty one, and was
\* granted.
C14_Witness ==
    /\ max_requests >= 1
    /\ FirstOnKey
    /\ Newest.held = 0
    /\ Newest.granted

\* C15: with max_requests = 0 every acquire returns False, whatever the key
\* and the time; no timestamp is ever stored; and wait_and_acquire returns
\* False, not before its deadline, and raises nothing.
C15_ZeroAlwaysDenies ==
    max_requests = 0 =>
       /\ \A i \in 1..Len(log) : ~log[i].granted
       /\ \A k \in DOMAIN requests : requests[k] = <<>>
       /\ \A t \in Tasks : ~InCritical(t) /\ task[t].grants = 0
       /\ returned.op = "acquire" => returned.ret = Returned("False")
       /\ returned.op = "wait_and_acquire" =>
             /\ returned.ret = Returned("False")
             /\ returned.at - returned.start >= returned.timeout

\* With max_requests = 0 a waiter was denied, slept, and returned False at
\* its deadline.
C15_Witness ==
    /\ max_requests = 0
    /\ returned.op = "wait_and_acquire"
    /\ returned.timeout > 0
    /\ returned.ret = Returned("False")
    /\ returned.key \in DOMAIN requests
    /\ log # <<>> /\ Newest.key = returned.key

\* C16: the waiters of a key are not served in order of arrival.  A waiter
\* polls when its own sleep is over and its poll is decided by the key's
\* window alone, also while another task has waited longer on the same key:
\* the later waiter can take the slot that the earlier one waits for.
Waiting(t) ==
    /\ task[t].op = "wait_and_acquire"
    /\ task[t].pc \in {"wa_loop", "wa_sleep", "acq_enter"}
Earlier(u, t) ==
    /\ u # t /\ Waiting(u)
    /\ task[u].key = task[t].key
    /\ task[u].start < task[t].start
Overtaking(t) == \E u \in Tasks : Earlier(u, t)
C16_NoArrivalOrder ==
    /\ [](\A t \in Tasks :
            Overtaking(t) =>
               /\ Sleeping(t) /\ task[t].sleep = 0 => ENABLED WaWake(t)
               /\ task[t].pc = "acq_enter" /\ lock = NoTask
                     => ENABLED AcquireEnter(t))
    /\ [][\A t \in Tasks :
             /\ Overtaking(t)
             /\ task[t].pc = "acq_enter" /\ task'[t] # task[t]
             /\ LiveCount(task[t].key) < max_requests
             => task'[t].pc = "acq_append"]_vars

\* Two tasks wait on the key M1, both since it was saturated; the one that
\* started later finds the list full of expired timestamps and is granted
\* the freed slot, while the one that started earlier still sleeps.
C16_Witness ==
    \E t, u \in Tasks :
       /\ Earlier(u, t) /\ Sleeping(u)
       /\ task[t].key = "M1"
       /\ task[t].start < window
       /\ clock > task[t].start
       /\ InCritical(t)
       /\ task[t].held = max_requests

\* The client with a rate limiter that grants up to one slot per window to
\* each of its concurrent callers, and whose window is longer than the
\* polling interval.
ConcurrentInit ==
    /\ Start
    /\ max_requests \in 1..Cardinality(Tasks)
    /\ window = PollInterval + MaxWindow

\* The client under concurrent callers of list_market_book.
ConcurrentNext ==
    \/ LimiterStep
    \/ \E t \in Tasks, ids \in MarketIdLists : CallListMarketBook(t, ids)
    \/ \E t \in Tasks, r \in Responses \cup {RequestError} : ApiResponse(t, r)

ConcurrentSpec == ConcurrentInit /\ [][ConcurrentNext]_vars

\* C17: a granted slot is not a lease on the request.  A dispatch with a key
\* is in flight after one grant; a dispatch whose poll finds room in the
\* window is granted also while another request with the same key is in
\* flight; the grants of a key within one window never exceed max_requests;
\* so up to max_requests requests with one key are in flight together.
InFlight(t) == task[t].pc = "await" /\ Truthy(task[t].key)
C17_NoLease ==
    /\ [](\A t \in Tasks : InFlight(t) => task[t].grants = 1)
    /\ []GrantBound
    /\ [][\A t \in Tasks :
             /\ task[t].pc = "acq_enter" /\ task'[t] # task[t]
             /\ \E u \in Tasks : InFlight(u) /\ task[u].key = task[t].key
             /\ LiveCount(task[t].key) < max_requests
             => task'[t].pc = "acq_append"]_vars

\* Two dispatches with the same key, both granted in the same window, have
\* their requests in flight at the same time.
C17_Witness ==
    \E t, u \in Tasks :
       /\ t # u
       /\ InFlight(t) /\ InFlight(u)
       /\ task[t].key = task[u].key
       /\ Len(requests[task[t].key]) = 2
       /\ StoredLive(requests, task[t].key, clock)

\* C18: every call of wait_and_acquire returns: True when one of its polls
\* is granted, False when its deadline has passed without a grant.
C18_WaitTerminates ==
    /\ \A t \in Tasks :
          task[t].op = "wait_and_acquire" ~> task[t].pc = "idle"
    /\ [](returned.op = "wait_and_acquire" =>
            \/ returned.ret = Returned("True") /\ returned.grants = 1
            \/ /\ returned.ret = Returned("False") /\ returned.grants = 0
               /\ returned.at - returned.start >= returned.timeout)

\* A waiter that was denied at every poll has returned False, its deadline
\* passed.
C18_Witness ==
    /\ returned.op = "wait_and_acquire"
    /\ returned.ret = Returned("False")
    /\ returned.timeout >= PollInterval
    /\ returned.at >= returned.start + returned.timeout
    /\ \A t \in Tasks : task[t].pc = "idle"

\* C19: the timestamps of every key are stored in non-decreasing order, and
\* the timestamp that a granted acquire is about to append is not less than
\* any already stored for its key.
Ordered(s) == \A i, j \in 1..Len(s) : i < j => s[i] <= s[j]
FullFor(t) ==
    /\ max_requests >= 1
    /\ task[t].key \in DOMAIN requests
    /\ Len(requests[task[t].key]) = max_requests
C20_WindowBoundary ==
    [][\A t \in Tasks :
          task[t].pc = "acq_enter" /\ task'[t] # task[t] /\ FullFor(t) =>
             LET k == task[t].key
                 t0 == requests[k][1]
             IN  IF clock < t0 + window
                 THEN task'[t].pc # "acq_append" /\ requests'[k] = requests[k]
                 ELSE /\ task'[t].pc = "acq_append"
                      /\ Len(requests'[k]) < max_requests
                      /\ \A i \in 1..Len(requests'[k]) : requests'[k][i] > t0]_vars

\* An acquire at exactly t0 + window found the list full, dropped t0 and
\* was granted.
C20_Witness ==
    \E t \in Tasks :
       /\ InCritical(t)
       /\ max_requests >= 1
       /\ task[t].held = max_requests
       /\ Len(requests[task[t].key]) = 0
       /\ lastGrant[task[t].key] >= 0
       /\ task[t].now = lastGrant[task[t].key] + window

\* C21: a granted slot is never given back.  A stored timestamp leaves its
\* key's list only when an acquire on that key prunes it, a window or more
\* after it was taken; the step that ends a dispatch, whatever the outcome,
\* leaves every list as it is.
Count(s, ts) == Cardinality({i \in 1..Len(s) : s[i] = ts})
Pruning(k) ==
    \E t \in Tasks :
       task[t].pc = "acq_enter" /\ task[t].key = k /\ task'[t] # task[t]
C21_NoRefund ==
    [][/\ \A k \in DOMAIN requests :
             /\ k \in DOMAIN requests'
             /\ \A i \in 1..Len(requests[k]) :
                   LET ts == requests[k][i]
                   IN  Count(requests'[k], ts) < Count(requests[k], ts)
                          => Pruning(k) /\ clock - ts >= window
       /\ \A t \in Tasks :
             task[t].pc = "await" /\ task'[t] # task[t]
                => requests' = requests]_vars

\* A dispatch was granted a slot, its request failed, and the timestamp it
\* took is still in its key's list.
C21_Witness ==
    /\ returned.op \in ClientOps
    /\ returned.ret.type = "HTTPException"
    /\ returned.grants = 1 /\ returned.posts = 1
    /\ returned.key \in DOMAIN requests
    /\ Len(requests[returned.key]) >= 1
    /\ StoredLive(requests, returned.key, clock)

\* C22: every request that place_orders sends was preceded, in the same
\* dispatch, by a slot granted under the order's market_id, whatever string
\* the market_id is, the empty one included.
C22_OrderCallAdmitted ==
    /\ \A t \in Tasks :
          task[t].op = "place_orders" /\ task[t].posts > 0
             => task[t].waits = 1 /\ task[t].grants = 1
    /\ returned.op = "place_orders" /\ returned.posts > 0
          => returned.waits = 1 /\ returned.grants = 1

\* C23: the list of every key holds at most max_requests timestamps, in
\* every state.
C23_AtMostMaxStored ==
    \A k \in DOMAIN requests : Len(requests[k]) <= max_requests

\* A key's list is full while another task is about to try for the key.
C23_Witness ==
    \E k \in DOMAIN requests, t \in Tasks :
       /\ max_requests >= 1
       /\ Len(requests[k]) = max_requests
       /\ task[t].pc = "acq_enter" /\ task[t].key = k

\* C24: the decision of acquire(key) leaves in the key's list exactly the
\* timestamps that were there and are less than a window old, in their
\* order, and leaves every other key alone; a denied acquire does no more;
\* a granted one then appends one timestamp, the clock value it read inside
\* the critical section, and nothing else changes.
Stored(k) == IF k \in DOMAIN requests THEN requests[k] ELSE <<>>
Unexpired(s, n) == SelectSeq(s, LAMBDA ts : n - ts < window)
OthersUnchanged(k) ==
    /\ DOMAIN requests' = DOMAIN requests \cup {k}
    /\ \A x \in DOMAIN requests : x # k => requests'[x] = requests[x]
C24_AcquireEffect ==
    [][\A t \in Tasks :
          /\ task[t].pc = "acq_enter" /\ task'[t] # task[t] =>
                /\ requests'[task[t].key] = Unexpired(Stored(task[t].key), clock)
                /\ OthersUnchanged(task[t].key)
                /\ task'[t].pc = "acq_append" => task'[t].now = clock
                /\ UNCHANGED <<max_requests, window, clock>>
          /\ task[t].pc = "acq_append" /\ task'[t] # task[t] =>
                /\ requests'[task[t].key] =
                      Append(requests[task[t].key], task[t].now)
                /\ OthersUnchanged(task[t].key)
                /\ UNCHANGED <<max_requests, window, clock>>
                /\ lock' = NoTask]_vars

\* An acquire was denied on a full list of live timestamps, which it left
\* as it was.
C24_Witness ==
    /\ returned.op = "acquire"
    /\ returned.ret = Returned("False")
    /\ max_requests >= 1
    /\ returned.key \in DOMAIN requests
    /\ Len(requests[returned.key]) = max_requests
    /\ log # <<>> /\ Newest.held = max_requests

\* C25: a step changes the window of a key only when it is a step of a call
\* that was given that key; a call without a key (list_market_catalogue,
\* cancel_orders, list_current_orders, get_account_funds) never enters the
\* rate limiter, leaves its whole state unchanged at every one of its steps
\* and never ends in 429; the key of list_market_book is its first market
\* id, whatever ids follow.
Keyless == UnlimitedOps \cup {"get_account_funds"}
Moved(t) == task'[t] # task[t]
Touched(k) == k \notin DOMAIN requests \/ requests'[k] # requests[k]
C25_SingleKey ==
    [][/\ DOMAIN requests \subseteq DOMAIN requests'
       /\ \A k \in DOMAIN requests' :
             Touched(k) => \E t \in Tasks : Moved(t) /\ task[t].key = k
       /\ \A t \in Tasks :
             /\ Moved(t)
             /\ \/ task[t].op \in Keyless
                \/ called'.task = t /\ called'.op \in Keyless
             => /\ UNCHANGED <<requests, lock, max_requests, window>>
                /\ task'[t].pc \in {"idle", "await"}
                /\ task'[t].key = None
                /\ task'[t].waits = 0
       /\ returned'.op \in Keyless =>
             /\ returned'.ret # RateLimited
             /\ returned'.waits = 0
             /\ returned'.key = None
       /\ called'.op = "list_market_book" =>
             /\ task'[called'.task].op = "list_market_book"
             /\ task'[called'.task].key = called'.ids[1]]_vars

\* list_market_book was called with two market ids and waits for a slot
\* under the first, while a call without a key is with the upstream, the
\* rate limiter untouched.
C25_Witness ==
    /\ called.op = "list_market_book"
    /\ Len(called.ids) = 2
    /\ task[called.task].key = called.ids[1]
    /\ task[called.task].pc \in {"acq_enter", "wa_loop"}
    /\ \E t \in Tasks :
          /\ task[t].op \in Keyless
          /\ task[t].pc = "await"
          /\ task[t].posts = 1
    /\ DOMAIN requests = {}

====
